---- MODULE Spec2Model ----
(***************************************************************************)
(* evosax: the ask/tell strategies SimAnneal and SimpleGA and the fitness  *)
(* shaping tool FitnessShaper, as state machines.                          *)
(*                                                                         *)
(* Numbers.  A float is a pair <<n, d>>: d > 0 is the rational n/d in      *)
(* lowest terms, <<1, 0>> is +inf, <<-1, 0>> is -inf and <<0, 0>> is NaN.  *)
(* Arithmetic and comparison follow IEEE-754 on these values (inf - inf    *)
(* and 0 * inf are NaN, every comparison with NaN is false, x / 0 is       *)
(* +-inf); rounding is not modelled.                                       *)
(***************************************************************************)
EXTENDS Integers, Sequences, FiniteSets, TLC

VARIABLES
    strategy,         \* "SimAnneal" | "SimpleGA" | "none"
    population_size,  \* Strategy.population_size
    num_dims,         \* Strategy.num_dims
    params,           \* the Params record handed to init/ask/tell
    state,            \* the State record the caller threads through the calls
    prev,             \* the State handed to the last call
    call,             \* the last call: its name, arguments, draws, results
    tells,            \* history: number of tell calls so far
    seen,             \* history: every fitness value handed to tell so far
    shaper,           \* the FitnessShaper under construction / constructed
    ranked            \* last centered_rank_trafo call: input and output

vars == <<strategy, population_size, num_dims, params, state, prev, call,
          tells, seen, shaper, ranked>>

-----------------------------------------------------------------------------
(* Bounds *)

\* SimAnneal's tell is called at most MaxGen times in a run
MaxGen == 2

\* SimpleGA's tell is called at most MaxGenGA times in a run
MaxGenGA == 1

\* centered_rank_trafo is handed fitness vectors of at most MaxSize values,
\* each of 0..MaxSize
MaxSize == 3

-----------------------------------------------------------------------------
(* Floats *)

Abs(n) == IF n < 0 THEN -n ELSE n

Sign(n) == IF n < 0 THEN -1 ELSE IF n > 0 THEN 1 ELSE 0

RECURSIVE GCD(_, _)
GCD(a, b) == IF b = 0 THEN a ELSE GCD(b, a % b)

\* the float n/d, d >= 0, in canonical form
R(n, d) ==
    IF d = 0 THEN <<Sign(n), 0>>
    ELSE LET g == GCD(Abs(n), d) IN <<n \div g, d \div g>>

Inf == <<1, 0>>
NegInf == <<-1, 0>>
NaN == <<0, 0>>
Zero == <<0, 1>>
One == <<1, 1>>

IsNaN(x) == x = NaN
IsFinite(x) == x[2] > 0

Neg(x) == <<-x[1], x[2]>>

Add(x, y) ==
    IF x[2] = 0 /\ y[2] = 0
    THEN IF x[1] = y[1] THEN x ELSE NaN
    ELSE R(x[1] * y[2] + y[1] * x[2], x[2] * y[2])

Sub(x, y) == Add(x, Neg(y))

Mul(x, y) == R(x[1] * y[1], x[2] * y[2])

\* 1/x; the zero of this model is +0, so 1/0 = +inf
Recip(x) ==
    IF x[1] > 0 THEN <<x[2], x[1]>>
    ELSE IF x[1] < 0 THEN <<-x[2], -x[1]>>
    ELSE IF x[2] = 0 THEN NaN ELSE Inf

Div(x, y) == Mul(x, Recip(y))

\* x < y
Lt(x, y) ==
    IF IsNaN(x) \/ IsNaN(y) THEN FALSE
    ELSE IF x[2] = 0 /\ y[2] = 0 THEN x[1] < y[1]
    ELSE IF x[2] = 0 THEN x[1] < 0
    ELSE IF y[2] = 0 THEN y[1] > 0
    ELSE x[1] * y[2] < y[1] * x[2]

Leq(x, y) == x = y \/ Lt(x, y)

\* jnp.clip(x, min=lo) = jnp.maximum(x, lo)
ClipMin(x, lo) ==
    IF IsNaN(x) \/ IsNaN(lo) THEN NaN ELSE IF Lt(x, lo) THEN lo ELSE x

\* jnp.where(c, x, y)
Where(c, x, y) == IF c THEN x ELSE y

\* jnp.full((n,), v)
Full(n, v) == [i \in 1..n |-> v]

\* jnp.argmin(f): the first index of the smallest value (of a NaN, if any)
ArgMin(f) ==
    IF \E i \in DOMAIN f : IsNaN(f[i])
    THEN CHOOSE i \in DOMAIN f :
            IsNaN(f[i]) /\ \A j \in DOMAIN f : IsNaN(f[j]) => i <= j
    ELSE CHOOSE i \in DOMAIN f :
            \A j \in DOMAIN f : Lt(f[i], f[j]) \/ (f[i] = f[j] /\ i <= j)

-----------------------------------------------------------------------------
(* Inputs *)

\* the random keys handed to ask and tell
Keys == 0..2

\* the population a caller may hand to tell: finite genes, members distinct,
\* no mix of two members' genes a member
CallerPopulations(n, d) ==
    {[i \in 1..n |-> [j \in 1..d |-> R(3 * i + j, 1)]]}

\* fitness values a caller may hand to tell
FitnessValues == {R(1, 1), R(2, 1), R(3, 1)}

\* the fitness vectors handed to tell: any two values, continued cyclically
\* (f[i] follows f[i-2]), so that ties and every order of the members occur;
\* and the vector of a generation that could not be evaluated, all +inf
FitnessInputs(n) ==
    {f \in [1..n -> FitnessValues] :
        \A i \in 3..n : f[i] = R((f[i - 2][1] % 3) + 1, 1)}
    \cup {[i \in 1..n |-> Inf]}

\* the values jax.random.uniform takes here, in [0, 1)
UniformValues == <<Zero, R(1, 2), R(3, 4)>>

\* jax.random.uniform(key, (n,)), the same for a shape (d,)
Uniform(key, n) == [i \in 1..n |-> UniformValues[((i + key) % 3) + 1]]

\* jax.random.normal(key, (n, d))
Normal2(key, n, d) ==
    [i \in 1..n |-> [j \in 1..d |-> R(((key + i + j) % 3) - 1, 1)]]

\* jax.random.normal(key, (d,))
Normal(key, d) == [j \in 1..d |-> R(((key + j) % 3) - 1, 1)]

\* jax.random.split(key, n): n keys derived from key
Split(key, n) == [i \in 1..n |-> 2 * key + i]

\* jax.random.uniform(key) in [0, 1), given as a = -ln(u) in (0, +inf]:
\* the draw is u = exp(-a), and u = 0 is a = +inf
AcceptanceValues == <<R(1, 10), R(3, 10), Inf>>

NegLogUniform(key) == AcceptanceValues[(key % 3) + 1]

-----------------------------------------------------------------------------
(* Strategy base class *)

\* Strategy.tell after the strategy's _tell: best-tracking, generation count
Strategy_tell(population, fitness, new) ==
    LET idx == ArgMin(fitness)
        condition == Lt(fitness[idx], new.best_fitness)
    IN [new EXCEPT
          !.best_solution = Where(condition, population[idx], @),
          !.best_fitness = Where(condition, fitness[idx], @),
          !.generation_counter = @ + 1]

-----------------------------------------------------------------------------
(* SimAnneal *)

\* <<decay, limit>> of a value that starts at 1: decaying above the limit,
\* decaying onto the limit, starting below the limit, growing
Schedules ==
    {<<R(1, 2), Zero>>, <<R(1, 2), R(3, 4)>>, <<One, R(2, 1)>>,
     <<R(3, 2), Zero>>}

\* std and temperature on different schedules
SimAnnealParams ==
    {[std_init |-> One,
      std_decay |-> st[1][1],
      std_limit |-> st[1][2],
      temperature_init |-> One,
      temperature_limit |-> IF st[2][2] = Zero THEN R(1, 10) ELSE st[2][2],
      temperature_decay |-> st[2][1],
      boltzmann_constant |-> R(5, 1)] :
        st \in {x \in Schedules \X Schedules : x[1] # x[2]}}

SimAnneal_init(p, dims) ==
    [current_solution |-> Full(dims, NaN),
     current_fitness |-> Inf,
     std |-> p.std_init,
     temperature |-> p.temperature_init,
     best_solution |-> Full(dims, NaN),
     best_fitness |-> Inf,
     generation_counter |-> 0]

\* _ask: population = state.current_solution + state.std * z
SimAnneal_ask(key, s, n, dims) ==
    LET z == Normal2(key, n, dims)
    IN [i \in 1..n |->
          [j \in 1..dims |-> Add(s.current_solution[j], Mul(s.std, z[i][j]))]]

\* faulty variant: ask advances the generation counter
SimAnneal_ask_state_counting(s) == [s EXCEPT !.generation_counter = @ + 1]

\* _ask returns the state it was given
SimAnneal_ask_state(s) == s

\* acceptance < metropolis, for acceptance = exp(-a) and
\* metropolis = exp(-delta / (boltzmann_constant * temperature)):
\* exp is strictly increasing, exp(-inf) = 0, exp(+inf) = +inf, exp(NaN) = NaN
Metropolis(a, delta, s, p) ==
    Lt(Neg(a), Div(Neg(delta), Mul(p.boltzmann_constant, s.temperature)))

\* faulty variant: delta with its sign flipped, current_fitness - best_fitness
SimAnneal_replace_flipped(key, fitness, s, p) ==
    LET best_fitness == fitness[ArgMin(fitness)]
        delta == Sub(s.current_fitness, best_fitness)
    IN Lt(delta, Zero) \/ Metropolis(NegLogUniform(key), delta, s, p)

\* replace = jnp.logical_or(delta < 0, acceptance < metropolis)
SimAnneal_replace(key, fitness, s, p) ==
    LET best_fitness == fitness[ArgMin(fitness)]
        delta == Sub(best_fitness, s.current_fitness)
    IN Lt(delta, Zero) \/ Metropolis(NegLogUniform(key), delta, s, p)

\* faulty variant: _tell writes the generation's best over best_fitness
SimAnneal_tell_overwriting_best(key, population, fitness, s, p) ==
    LET best_idx == ArgMin(fitness)
        replace == SimAnneal_replace(key, fitness, s, p)
    IN [s EXCEPT
          !.current_solution = Where(replace, population[best_idx], @),
          !.current_fitness = Where(replace, fitness[best_idx], @),
          !.std = ClipMin(Mul(s.std, p.std_decay), p.std_limit),
          !.temperature = ClipMin(Mul(s.temperature, p.temperature_decay),
                                  p.temperature_limit),
          !.best_fitness = fitness[best_idx]]

\* faulty variant: on acceptance the first member replaces the current solution
SimAnneal_tell_first_member(key, population, fitness, s, p) ==
    LET best_idx == ArgMin(fitness)
        replace == SimAnneal_replace(key, fitness, s, p)
    IN [s EXCEPT
          !.current_solution = Where(replace, population[1], @),
          !.current_fitness = Where(replace, fitness[best_idx], @),
          !.std = ClipMin(Mul(s.std, p.std_decay), p.std_limit),
          !.temperature = ClipMin(Mul(s.temperature, p.temperature_decay),
                                  p.temperature_limit)]

\* faulty variant: std and temperature decay only when the generation's best is accepted
SimAnneal_tell_decay_on_accept(key, population, fitness, s, p) ==
    LET best_idx == ArgMin(fitness)
        replace == SimAnneal_replace(key, fitness, s, p)
    IN [s EXCEPT
          !.current_solution = Where(replace, population[best_idx], @),
          !.current_fitness = Where(replace, fitness[best_idx], @),
          !.std = Where(replace,
                        ClipMin(Mul(s.std, p.std_decay), p.std_limit), @),
          !.temperature = Where(replace,
                                ClipMin(Mul(s.temperature, p.temperature_decay),
                                        p.temperature_limit), @)]

\* faulty variant: _tell builds a new state, best_fitness back at +inf
SimAnneal_tell_fresh_state(key, population, fitness, s, p) ==
    LET best_idx == ArgMin(fitness)
        replace == SimAnneal_replace(key, fitness, s, p)
    IN [s EXCEPT
          !.current_solution = Where(replace, population[best_idx], @),
          !.current_fitness = Where(replace, fitness[best_idx], @),
          !.std = ClipMin(Mul(s.std, p.std_decay), p.std_limit),
          !.temperature = ClipMin(Mul(s.temperature, p.temperature_decay),
                                  p.temperature_limit),
          !.best_solution = Full(Len(s.best_solution), NaN),
          !.best_fitness = Inf]

SimAnneal_tell(key, population, fitness, s, p) ==
    LET best_idx == ArgMin(fitness)
        best_member == population[best_idx]
        best_fitness == fitness[best_idx]
        replace == SimAnneal_replace(key, fitness, s, p)
    IN [s EXCEPT
          !.current_solution = Where(replace, best_member, @),
          !.current_fitness = Where(replace, best_fitness, @),
          !.std = ClipMin(Mul(s.std, p.std_decay), p.std_limit),
          !.temperature = ClipMin(Mul(s.temperature, p.temperature_decay),
                                  p.temperature_limit)]

-----------------------------------------------------------------------------
(* SimpleGA *)

SimpleGAParams ==
    {[crossover_rate |-> c,
      std_init |-> One,
      std_decay |-> s[1],
      std_limit |-> s[2]] : c \in {Zero, R(1, 2), One}, s \in Schedules}

elite_ratio == R(1, 2)

\* Strategy.num_elites
num_elites(n) == Mul(elite_ratio, R(n, 1))

SimpleGA_init(p, n, dims) ==
    [population |-> Full(n, Full(dims, NaN)),
     fitness |-> Full(n, Inf),
     std |-> p.std_init,
     best_solution |-> Full(dims, NaN),
     best_fitness |-> Inf,
     generation_counter |-> 0]

\* the order jnp.argsort sorts by: ascending, NaN last
SortsBefore(x, y) == Lt(x, y) \/ (~IsNaN(x) /\ IsNaN(y))

\* idx with i inserted behind every index whose value does not sort after f[i]
RECURSIVE Insert(_, _, _)
Insert(idx, i, f) ==
    IF idx = <<>> THEN <<i>>
    ELSE IF SortsBefore(f[i], f[Head(idx)]) THEN <<i>> \o idx
    ELSE <<Head(idx)>> \o Insert(Tail(idx), i, f)

RECURSIVE ArgSortUpTo(_, _)
ArgSortUpTo(f, n) ==
    IF n = 0 THEN <<>> ELSE Insert(ArgSortUpTo(f, n - 1), n, f)

\* jnp.argsort(f): the stable ascending order of the indices
ArgSort(f) == ArgSortUpTo(f, Len(f))

\* faulty variant: <= for <, one member too many is eligible
ElitesP_inclusive(n) ==
    [i \in 1..n |-> IF Leq(R(i - 1, 1), num_elites(n)) THEN 1 ELSE 0]

\* p = jnp.arange(self.population_size) < self.num_elites
ElitesP(n) == [i \in 1..n |-> IF Lt(R(i - 1, 1), num_elites(n)) THEN 1 ELSE 0]

RECURSIVE CumSumUpTo(_, _)
CumSumUpTo(p, n) ==
    IF n = 0 THEN <<>>
    ELSE LET c == CumSumUpTo(p, n - 1)
         IN Append(c, (IF n = 1 THEN 0 ELSE c[n - 1]) + p[n])

\* jnp.cumsum(p)
CumSum(p) == CumSumUpTo(p, Len(p))

\* jnp.searchsorted(c, r): the number of entries of the ascending c below r
SearchSorted(c, r) == Cardinality({k \in DOMAIN c : Lt(R(c[k], 1), r)})

\* jax.random.choice(key, a, (n,), p=p):
\* r = p_cuml[-1] * (1 - uniform(key, (n,))); ind = searchsorted(p_cuml, r)
Choice(key, a, n, p) ==
    LET p_cuml == CumSum(p)
        total == R(p_cuml[Len(p_cuml)], 1)
        u == Uniform(key, n)
    IN [i \in 1..n |->
          a[SearchSorted(p_cuml, Mul(total, Sub(One, u[i]))) + 1]]

\* faulty variant: the parents swapped, parent_1 * mask + parent_2 * (1 - mask)
crossover_swapped(key, parent_1, parent_2, crossover_rate) ==
    LET u == Uniform(key, Len(parent_1))
        mask(j) == IF Lt(u[j], crossover_rate) THEN One ELSE Zero
    IN [j \in DOMAIN parent_1 |->
          Add(Mul(parent_1[j], mask(j)), Mul(parent_2[j], Sub(One, mask(j))))]

\* mask = uniform(key, parent_1.shape) < crossover_rate;
\* parent_1 * (1 - mask) + parent_2 * mask
crossover(key, parent_1, parent_2, crossover_rate) ==
    LET u == Uniform(key, Len(parent_1))
        mask(j) == IF Lt(u[j], crossover_rate) THEN One ELSE Zero
    IN [j \in DOMAIN parent_1 |->
          Add(Mul(parent_1[j], Sub(One, mask(j))), Mul(parent_2[j], mask(j)))]

\* solution + std * normal(key, solution.shape)
mutation(key, solution, std) ==
    LET z == Normal(key, Len(solution))
    IN [j \in DOMAIN solution |-> Add(solution[j], Mul(std, z[j]))]

\* population = state.population[jnp.argsort(state.fitness)]
SimpleGA_sorted(s) ==
    LET idx == ArgSort(s.fitness)
    IN [i \in DOMAIN idx |-> s.population[idx[i]]]

\* the parents jax.random.choice draws under key
SimpleGA_parents(key, s, n) == Choice(key, SimpleGA_sorted(s), n, ElitesP(n))

\* _ask: the parents drawn, the offspring of the crossover, the mutated
\* population that is returned
SimpleGA_ask(key, s, p, n) ==
    LET keys == Split(key, 4)
        key_crossover == Split(keys[1], n)
        key_mutation == Split(keys[2], n)
        parents_1 == SimpleGA_parents(keys[3], s, n)
        parents_2 == SimpleGA_parents(keys[4], s, n)
        offspring == [i \in 1..n |->
                        crossover(key_crossover[i], parents_1[i], parents_2[i],
                                  p.crossover_rate)]
    IN [op |-> "ask",
        key |-> key,
        parents_1 |-> parents_1,
        parents_2 |-> parents_2,
        u_crossover |-> [i \in 1..n |->
                           Uniform(key_crossover[i], Len(s.population[i]))],
        offspring |-> offspring,
        population |-> [i \in 1..n |->
                          mutation(key_mutation[i], offspring[i], s.std)]]

\* _ask returns the state it was given
SimpleGA_ask_state(s) == s

\* faulty variant: tell stores the population and fitness sorted by fitness
SimpleGA_tell_sorted(population, fitness, s, p) ==
    LET idx == ArgSort(fitness)
    IN [s EXCEPT
          !.population = [i \in DOMAIN idx |-> population[idx[i]]],
          !.fitness = [i \in DOMAIN idx |-> fitness[idx[i]]],
          !.std = ClipMin(Mul(s.std, p.std_decay), p.std_limit)]

SimpleGA_tell(population, fitness, s, p) ==
    [s EXCEPT
       !.population = population,
       !.fitness = fitness,
       !.std = ClipMin(Mul(s.std, p.std_decay), p.std_limit)]

-----------------------------------------------------------------------------
(* FitnessShaper *)

\* bool(x) of a bool | int argument (False is 0, True is 1)
Bool(x) == x # 0

\* the arguments of FitnessShaper(...); fitness_trafo "None" is None and
\* "rank" is a string that names no transformation
ShaperArgs ==
    [centered_rank : 0..2,
     z_score : 0..2,
     norm_range : 0..2,
     w_decay : {Zero, R(1, 10)},
     maximize : 0..1,
     fitness_trafo : {"None", "centered_rank", "z_score", "norm_range", "raw",
                      "rank"}]

\* the number of True among three bools
NumOptionsOn(a, b, c) ==
    (IF a THEN 1 ELSE 0) + (IF b THEN 1 ELSE 0) + (IF c THEN 1 ELSE 0)

\* faulty variant: assert num_options_on <= 2
OnlyOneTransformation_upto2(a, b, c) == NumOptionsOn(a, b, c) <= 2

\* assert num_options_on < 2
OnlyOneTransformation(a, b, c) == NumOptionsOn(a, b, c) < 2

\* FitnessShaper.__init__: the object constructed, or the AssertionError
FitnessShaper_init(args) ==
    LET named == args.fitness_trafo \in
                    {"centered_rank", "z_score", "norm_range", "raw"}
        centered_rank == IF named THEN args.fitness_trafo = "centered_rank"
                         ELSE Bool(args.centered_rank)
        z_score == IF named THEN args.fitness_trafo = "z_score"
                   ELSE Bool(args.z_score)
        norm_range == IF named THEN args.fitness_trafo = "norm_range"
                      ELSE Bool(args.norm_range)
    IN IF OnlyOneTransformation(centered_rank, z_score, norm_range)
       THEN [status |-> "constructed",
             args |-> args,
             w_decay |-> args.w_decay,
             maximize |-> Bool(args.maximize),
             centered_rank |-> centered_rank,
             z_score |-> z_score,
             norm_range |-> norm_range]
       ELSE [status |-> "AssertionError", args |-> args]

\* the fitness vectors handed to centered_rank_trafo
RankInputs ==
    UNION {[1..n -> {R(v, 1) : v \in 0..MaxSize}] : n \in 1..MaxSize}

\* idx.at[idx].set(vals): entry idx[k] becomes vals[k]; entries are 0-based
ScatterSet(idx, vals) ==
    [i \in DOMAIN idx |->
        IF \E k \in DOMAIN idx : idx[k] = i - 1
        THEN vals[CHOOSE k \in DOMAIN idx :
                    idx[k] = i - 1 /\ \A m \in DOMAIN idx : idx[m] = i - 1 => m <= k]
        ELSE idx[i]]

\* faulty variant: the argsort itself returned as the ranks
ranksort_argsort(fitness) ==
    LET sorted == ArgSort(fitness)
    IN [k \in DOMAIN fitness |-> sorted[k] - 1]

\* ranksort: idx = jnp.argsort(fitness); idx.at[idx].set(jnp.arange(size))
ranksort(fitness) ==
    LET sorted == ArgSort(fitness)
        idx == [k \in DOMAIN fitness |-> sorted[k] - 1]
    IN ScatterSet(idx, [k \in DOMAIN fitness |-> k - 1])

\* centered_rank_trafo: y = ranksort(fitness); y /= fitness.size - 1; y - 0.5
centered_rank_trafo(fitness) ==
    LET y == ranksort(fitness)
    IN [i \in DOMAIN fitness |->
          Sub(Div(R(y[i], 1), R(Len(fitness) - 1, 1)), R(1, 2))]

-----------------------------------------------------------------------------
(* The caller's loop: init, then ask and tell in any order *)

NoShaper == [status |-> "none"]
NoRanked == [fitness |-> <<>>, out |-> <<>>, done |-> FALSE]

InitSimAnneal ==
    /\ strategy = "SimAnneal"
    /\ population_size = 2
    /\ num_dims = 1
    /\ params \in SimAnnealParams
    /\ state = SimAnneal_init(params, num_dims)

InitSimpleGA ==
    /\ strategy = "SimpleGA"
    /\ population_size = 4
    /\ num_dims = 2
    /\ params \in SimpleGAParams
    /\ state = SimpleGA_init(params, population_size, num_dims)

Init ==
    /\ InitSimAnneal \/ InitSimpleGA
    /\ prev = state
    /\ call = [op |-> "init"]
    /\ tells = 0
    /\ seen = {}
    /\ shaper = NoShaper
    /\ ranked = NoRanked

\* the population handed to tell: the caller's own, or the one just asked
TellPopulations ==
    CallerPopulations(population_size, num_dims)
        \cup (IF call.op = "ask" THEN {call.population} ELSE {})

SimAnnealAsk ==
    /\ strategy = "SimAnneal"
    /\ \E key \in Keys :
          /\ call' = [op |-> "ask", key |-> key,
                      population |-> SimAnneal_ask(key, state, population_size,
                                                   num_dims)]
          /\ state' = SimAnneal_ask_state(state)
    /\ prev' = state
    /\ UNCHANGED <<strategy, population_size, num_dims, params, tells, seen,
                   shaper, ranked>>

SimAnnealTell ==
    /\ strategy = "SimAnneal"
    /\ tells < MaxGen
    /\ \E key \in Keys, population \in TellPopulations,
          fitness \in FitnessInputs(population_size) :
          /\ call' = [op |-> "tell", key |-> key, population |-> population,
                      fitness |-> fitness]
          /\ state' = Strategy_tell(population, fitness,
                        SimAnneal_tell(key, population, fitness, state, params))
          /\ seen' = seen \cup {fitness[i] : i \in DOMAIN fitness}
    /\ prev' = state
    /\ tells' = tells + 1
    /\ UNCHANGED <<strategy, population_size, num_dims, params, shaper, ranked>>

SimpleGAAsk ==
    /\ strategy = "SimpleGA"
    /\ \E key \in Keys :
          /\ call' = SimpleGA_ask(key, state, params, population_size)
          /\ state' = SimpleGA_ask_state(state)
    /\ prev' = state
    /\ UNCHANGED <<strategy, population_size, num_dims, params, tells, seen,
                   shaper, ranked>>

SimpleGATell ==
    /\ strategy = "SimpleGA"
    /\ tells < MaxGenGA
    /\ \E population \in TellPopulations,
          fitness \in FitnessInputs(population_size) :
          /\ call' = [op |-> "tell", population |-> population,
                      fitness |-> fitness]
          /\ state' = Strategy_tell(population, fitness,
                        SimpleGA_tell(population, fitness, state, params))
          /\ seen' = seen \cup {fitness[i] : i \in DOMAIN fitness}
    /\ prev' = state
    /\ tells' = tells + 1
    /\ UNCHANGED <<strategy, population_size, num_dims, params, shaper, ranked>>

Next == SimAnnealAsk \/ SimAnnealTell \/ SimpleGAAsk \/ SimpleGATell

Spec == Init /\ [][Next]_vars

-----------------------------------------------------------------------------
(* Properties of the strategies *)

IsAsk == call.op = "ask"
IsTell == call.op = "tell"

RMax(x, y) == IF Lt(x, y) THEN y ELSE x

\* the smallest of the fitness values f, and the first member that has it
GenerationBest(f) ==
    CHOOSE v \in {f[i] : i \in DOMAIN f} : \A i \in DOMAIN f : Leq(v, f[i])

GenerationBestIndex(f) ==
    CHOOSE i \in DOMAIN f :
        f[i] = GenerationBest(f) /\ \A j \in 1..(i - 1) : f[j] # f[i]

\* delta of the last tell: the generation's best minus the current fitness
TellDelta == Sub(GenerationBest(call.fitness), prev.current_fitness)

\* C1: generation_counter equals the number of tell calls made so far; init
\* sets it to 0, each tell adds exactly 1 and ask leaves it alone.
GenerationCounterCountsTells ==
    /\ state.generation_counter = tells
    /\ call.op = "init" => state.generation_counter = 0
    /\ IsTell => state.generation_counter = prev.generation_counter + 1
    /\ IsAsk => state.generation_counter = prev.generation_counter

\* an ask after the second tell
AskAfterTwoTells == IsAsk /\ tells = 2 /\ state.generation_counter = 2

\* C2: best_fitness is the minimum of all fitness values handed to tell so far
\* (+inf before the first tell); no call increases it, ask leaves it alone.
BestFitnessIsMinimumSeen ==
    /\ seen = {} => state.best_fitness = Inf
    /\ seen # {} =>
          /\ state.best_fitness \in seen
          /\ \A f \in seen : Leq(state.best_fitness, f)
    /\ Leq(state.best_fitness, prev.best_fitness)
    /\ IsAsk => state.best_fitness = prev.best_fitness

\* a tell whose generation best is worse than the best seen before it
TellWithWorseGeneration ==
    /\ IsTell
    /\ Lt(prev.best_fitness, GenerationBest(call.fitness))
    /\ state.best_fitness = prev.best_fitness

\* C3: a SimAnneal tell whose generation best is strictly below current_fitness
\* (delta < 0) makes that best the current fitness and its member the current
\* solution, whatever the draw and the temperature, the first tell included.
ImprovementAlwaysAccepted ==
    (strategy = "SimAnneal" /\ IsTell /\ Lt(TellDelta, Zero)) =>
        /\ state.current_fitness = GenerationBest(call.fitness)
        /\ state.current_solution =
              call.population[GenerationBestIndex(call.fitness)]

\* an improvement on a finite current fitness under the highest draw
ImprovementUnderHighDraw ==
    /\ strategy = "SimAnneal"
    /\ IsTell
    /\ IsFinite(prev.current_fitness)
    /\ Lt(TellDelta, Zero)
    /\ NegLogUniform(call.key) = R(1, 10)
    /\ state.current_fitness = GenerationBest(call.fitness)

\* the acceptance of the last SimAnneal tell, as the claim states it:
\* delta < 0, or the draw u = exp(-a) below exp(-delta / (k * temperature)),
\* which is -a < -delta / (k * temperature)
TellAccepts ==
    \/ Lt(TellDelta, Zero)
    \/ Lt(Neg(NegLogUniform(call.key)),
          Div(Neg(TellDelta),
              Mul(params.boltzmann_constant, prev.temperature)))

\* C9: a SimAnneal tell that accepts sets current_solution and current_fitness
\* to the generation's argmin member and its fitness; one that rejects leaves
\* both as they were.
CurrentChangesOnlyOnAcceptance ==
    (strategy = "SimAnneal" /\ IsTell) =>
        /\ TellAccepts =>
              /\ state.current_fitness = GenerationBest(call.fitness)
              /\ state.current_solution =
                    call.population[GenerationBestIndex(call.fitness)]
        /\ ~TellAccepts =>
              /\ state.current_fitness = prev.current_fitness
              /\ state.current_solution = prev.current_solution

\* a rejected generation whose best member is not the current solution
RejectedGeneration ==
    /\ strategy = "SimAnneal"
    /\ IsTell
    /\ ~TellAccepts
    /\ IsFinite(prev.current_fitness)
    /\ call.population[GenerationBestIndex(call.fitness)] # prev.current_solution
    /\ state.current_solution = prev.current_solution

InUnitInterval(x) == Lt(Zero, x) /\ Leq(x, One)

\* C10: every SimAnneal tell sets std to max(std * std_decay, std_limit) and
\* temperature to max(temperature * temperature_decay, temperature_limit), so
\* both are at or above their limits after a tell; with a decay rate in (0, 1]
\* and an initial value at or above its limit, the value never increases.
StdAndTemperatureDecay ==
    strategy = "SimAnneal" =>
        /\ IsTell =>
              /\ state.std = RMax(Mul(prev.std, params.std_decay),
                                  params.std_limit)
              /\ state.temperature =
                    RMax(Mul(prev.temperature, params.temperature_decay),
                         params.temperature_limit)
              /\ Leq(params.std_limit, state.std)
              /\ Leq(params.temperature_limit, state.temperature)
        /\ (InUnitInterval(params.std_decay)
                /\ Leq(params.std_limit, params.std_init)) =>
              Leq(state.std, prev.std)
        /\ (InUnitInterval(params.temperature_decay)
                /\ Leq(params.temperature_limit, params.temperature_init)) =>
              Leq(state.temperature, prev.temperature)

\* a rejected generation after which std and temperature are both lower
DecayOnRejection ==
    /\ strategy = "SimAnneal"
    /\ IsTell
    /\ ~TellAccepts
    /\ Lt(state.std, prev.std)
    /\ Lt(state.temperature, prev.temperature)

\* C11: in every state of a SimAnneal run, best_fitness <= current_fitness:
\* the current fitness is +inf or the best of a generation handed to tell, and
\* best_fitness is the minimum over all of them; the current fitness may rise
\* when a worse generation best is accepted by the draw, never below the best.
BestNeverAboveCurrent ==
    strategy = "SimAnneal" =>
        /\ Leq(state.best_fitness, state.current_fitness)
        /\ state.current_fitness \in seen \cup {Inf}

\* a tell that accepts a worse generation best by the draw: the current
\* fitness rises and ends strictly above best_fitness
IncumbentRaisedByDraw ==
    /\ strategy = "SimAnneal"
    /\ IsTell
    /\ IsFinite(prev.current_fitness)
    /\ Lt(Zero, TellDelta)
    /\ Lt(prev.current_fitness, state.current_fitness)
    /\ Lt(state.best_fitness, state.current_fitness)

\* the members that sort among the first half by fitness: fewer than
\* population_size / 2 members have a lower fitness, or the same fitness and
\* a lower index
EliteIndices(f) ==
    {i \in DOMAIN f :
        2 * Cardinality({j \in DOMAIN f :
                            Lt(f[j], f[i]) \/ (f[j] = f[i] /\ j < i)})
            < Len(f)}

EliteMembers(s) == {s.population[i] : i \in EliteIndices(s.fitness)}

\* C4: in a SimpleGA ask both parents of each of the population_size offspring
\* are members of the elite half of state.population, the members of lowest
\* state.fitness; with population_size = 4 these are 2 members.
ParentsAreElites ==
    (strategy = "SimpleGA" /\ IsAsk) =>
        /\ Len(call.parents_1) = population_size
        /\ Len(call.parents_2) = population_size
        /\ \A i \in 1..population_size :
              /\ call.parents_1[i] \in EliteMembers(prev)
              /\ call.parents_2[i] \in EliteMembers(prev)
        /\ population_size = 4 => Cardinality(EliteIndices(prev.fitness)) = 2

\* an ask on a told population whose two best members are not its first two,
\* with an offspring of two different parents
AskWithMixedParents ==
    /\ strategy = "SimpleGA"
    /\ IsAsk
    /\ tells = 1
    /\ EliteIndices(prev.fitness) \cap {1, 2} = {}
    /\ Cardinality({prev.population[i] : i \in 1..population_size})
          = population_size
    /\ \E i \in 1..population_size : call.parents_1[i] # call.parents_2[i]

\* C5: each gene of a SimpleGA offspring before mutation is that of parent 2
\* where the gene's uniform draw is below crossover_rate and that of parent 1
\* otherwise; with crossover_rate = 0 the offspring is its first parent.
OffspringGenesFromParents ==
    (strategy = "SimpleGA" /\ IsAsk) =>
        /\ \A i \in 1..population_size : \A j \in 1..num_dims :
              call.offspring[i][j] =
                 IF Lt(call.u_crossover[i][j], params.crossover_rate)
                 THEN call.parents_2[i][j]
                 ELSE call.parents_1[i][j]
        /\ params.crossover_rate = Zero =>
              \A i \in 1..population_size :
                 call.offspring[i] = call.parents_1[i]

\* crossover_rate = 0 and an offspring whose parents differ in every gene
CopyOfFirstParent ==
    /\ strategy = "SimpleGA"
    /\ IsAsk
    /\ params.crossover_rate = Zero
    /\ \E i \in 1..population_size :
          /\ \A j \in 1..num_dims :
                /\ IsFinite(call.parents_1[i][j])
                /\ call.parents_1[i][j] # call.parents_2[i][j]
          /\ call.offspring[i] = call.parents_1[i]

\* C6: a SimpleGA tell returns a state whose population and fitness are the
\* ones handed in and whose std is max(std * std_decay, std_limit); after
\* init and one tell std is max(std_init * std_decay, std_limit).
TellStoresGeneration ==
    (strategy = "SimpleGA" /\ IsTell) =>
        /\ state.population = call.population
        /\ state.fitness = call.fitness
        /\ state.std = RMax(Mul(prev.std, params.std_decay), params.std_limit)
        /\ tells = 1 =>
              state.std = RMax(Mul(params.std_init, params.std_decay),
                               params.std_limit)

\* a first tell, its fitness not in ascending order,
\* with std on its limit
FirstTellClipsStd ==
    /\ strategy = "SimpleGA"
    /\ IsTell
    /\ tells = 1
    /\ Lt(call.fitness[2], call.fitness[1])
    /\ state.std = params.std_limit
    /\ Lt(Mul(params.std_init, params.std_decay), params.std_limit)

-----------------------------------------------------------------------------
(* Constructing fitness shapers *)

NoStrategy ==
    /\ strategy = "none"
    /\ population_size = 0
    /\ num_dims = 0
    /\ params = <<>>
    /\ state = <<>>
    /\ prev = <<>>
    /\ call = [op |-> "none"]
    /\ tells = 0
    /\ seen = {}

InitShaper ==
    /\ NoStrategy
    /\ shaper = NoShaper
    /\ ranked = NoRanked

FitnessShaperInit ==
    /\ \E args \in ShaperArgs : shaper' = FitnessShaper_init(args)
    /\ UNCHANGED <<strategy, population_size, num_dims, params, state, prev,
                   call, tells, seen, ranked>>

NextShaper == FitnessShaperInit

SpecShaper == InitShaper /\ [][NextShaper]_vars

-----------------------------------------------------------------------------
(* Properties of FitnessShaper *)

Constructed == shaper.status = "constructed"
Failed == shaper.status = "AssertionError"

\* the number of centered_rank, z_score and norm_range passed as true
FlagsPassed ==
    Cardinality({f \in {"centered_rank", "z_score", "norm_range"} :
                    shaper.args[f] # 0})

\* fitness_trafo names a transformation, or "raw"
TrafoNamed ==
    shaper.args.fitness_trafo \in
        {"centered_rank", "z_score", "norm_range", "raw"}

\* C7 as stated: construction fails when more than one of centered_rank,
\* z_score and norm_range is enabled, for every value of the other arguments,
\* and succeeds when at most one is.
ConstructionFailsOnTwoFlags ==
    shaper.status # "none" => (Failed <=> FlagsPassed > 1)

\* C7, amended: construction fails exactly when fitness_trafo names no
\* transformation and more than one of the three flags is passed as true; when
\* fitness_trafo is "centered_rank", "z_score", "norm_range" or "raw" the flags
\* are not read, construction succeeds and that transformation alone (none
\* for "raw") is enabled. No constructed shaper has two enabled.
ConstructionFailsOnTwoUnnamedFlags ==
    shaper.status # "none" =>
        /\ Failed <=> (~TrafoNamed /\ FlagsPassed > 1)
        /\ Constructed =>
              /\ NumOptionsOn(shaper.centered_rank, shaper.z_score,
                              shaper.norm_range) < 2
              /\ TrafoNamed =>
                    /\ shaper.centered_rank
                          <=> shaper.args.fitness_trafo = "centered_rank"
                    /\ shaper.z_score <=> shaper.args.fitness_trafo = "z_score"
                    /\ shaper.norm_range
                          <=> shaper.args.fitness_trafo = "norm_range"
              /\ ~TrafoNamed =>
                    /\ shaper.centered_rank <=> shaper.args.centered_rank # 0
                    /\ shaper.z_score <=> shaper.args.z_score # 0
                    /\ shaper.norm_range <=> shaper.args.norm_range # 0

\* FitnessShaper(centered_rank=True, z_score=True) has failed
TwoFlagsRejected ==
    /\ Failed
    /\ shaper.args.centered_rank = 1
    /\ shaper.args.z_score = 1
    /\ shaper.args.norm_range = 0
    /\ shaper.args.fitness_trafo = "None"

-----------------------------------------------------------------------------
(* Applying centered_rank_trafo *)

InitRank ==
    /\ NoStrategy
    /\ shaper = NoShaper
    /\ \E fitness \in RankInputs :
          ranked = [fitness |-> fitness, out |-> <<>>, done |-> FALSE]

CenteredRankTrafo ==
    /\ ~ranked.done
    /\ ranked' = [ranked EXCEPT !.out = centered_rank_trafo(ranked.fitness),
                                !.done = TRUE]
    /\ UNCHANGED <<strategy, population_size, num_dims, params, state, prev,
                   call, tells, seen, shaper>>

NextRank == CenteredRankTrafo

SpecRank == InitRank /\ [][NextRank]_vars

-----------------------------------------------------------------------------
(* Properties of centered_rank_trafo *)

\* the rank of member i: the number of members of lower fitness, and of equal
\* fitness and lower index
RankOf(f, i) ==
    Cardinality({j \in DOMAIN f : Lt(f[j], f[i]) \/ (f[j] = f[i] /\ j < i)})

Distinct(f) == \A i, j \in DOMAIN f : f[i] = f[j] => i = j

\* the output is rank / (N - 1) - 0.5 of the stable ranks, and for distinct
\* values lies in [-0.5, 0.5], -0.5 for the lowest and +0.5 for the highest
CenteredRanks(f, out) ==
    LET N == Len(f)
    IN /\ Len(out) = N
       /\ \A i \in 1..N :
             out[i] = Sub(Div(R(RankOf(f, i), 1), R(N - 1, 1)), R(1, 2))
       /\ Distinct(f) =>
             /\ {RankOf(f, i) : i \in 1..N} = 0..(N - 1)
             /\ \A i \in 1..N :
                   /\ Leq(R(-1, 2), out[i]) /\ Leq(out[i], R(1, 2))
                   /\ (\A j \in 1..N : Leq(f[i], f[j])) => out[i] = R(-1, 2)
                   /\ (\A j \in 1..N : Leq(f[j], f[i])) => out[i] = R(1, 2)

\* C8 as stated: for every fitness vector of size N, centered_rank_trafo
\* returns rank / (N - 1) - 0.5 with ties ranked in index order; for distinct
\* values the ranks are a permutation of 0..N-1, the lowest fitness maps to
\* -0.5, the highest to +0.5 and every output lies in [-0.5, 0.5].
CenteredRankScaled ==
    ranked.done => CenteredRanks(ranked.fitness, ranked.out)

\* C8, amended: the same for every fitness vector of size N >= 2 (for N = 1
\* the one output is 0 / 0 - 0.5, which is NaN).
CenteredRankScaledFromTwo ==
    (ranked.done /\ Len(ranked.fitness) >= 2) =>
        CenteredRanks(ranked.fitness, ranked.out)

\* three distinct values whose ranks are not their sorting order
RanksOfUnsortedValues ==
    /\ ranked.done
    /\ ranked.fitness = <<R(1, 1), R(2, 1), R(0, 1)>>
    /\ ranked.out = <<Zero, R(1, 2), R(-1, 2)>>

====
